---- MODULE Spec2Model ----
(***************************************************************************)
(* CICheckRunPopover (app/src/ui/check-runs/ci-check-run-popover.tsx):     *)
(* the subscription lifecycle, the two-phase enrichment started by         *)
(* onStatus, the summary string, rerunJobs and viewCheckRunsOnGitHub.      *)
(***************************************************************************)
EXTENDS Integers, Sequences, FiniteSets, TLC

VARIABLES
    phase,              \* React lifecycle position of the instance
    props,              \* this.props
    state,              \* this.state
    statusSubscription, \* this.statusSubscription
    subLog,             \* calls made on the dispatcher's subscriptions, in order
    passes,             \* enrichment calls awaiting their result
    delivered,          \* the most recent ICombinedRefCheck handed to the panel
    history,            \* enrichment calls that have settled, and how
    rerequested,        \* rerequestCheckSuite calls of the latest rerunJobs
    opened              \* openInBrowser calls of the latest viewCheckRunsOnGitHub

vars == <<phase, props, state, statusSubscription, subLog, passes, delivered,
          history, rerequested, opened>>

----------------------------------------------------------------------------
(* Bounds *)

MaxChecks == 1
MaxDeliveries == 2
MaxSummaryChecks == 3
MaxRerunChecks == 3

----------------------------------------------------------------------------
(* Values *)

\* null of ICombinedRefCheck | null
Null == [null |-> TRUE]
\* null of string | null
NullStr == "<null>"
\* null of number | null
NullId == -1
\* null of IDisposable | null
NoSubscription == 0

BoundedSeq(S, n) == UNION {[1..k -> S] : k \in 0..n}

Conclusions == {"success", "failure", "neutral", "skipped"}

\* An IRefCheck; actions records what the dispatcher's enrichment has added.
Check(conclusion, checkSuiteId, htmlUrl) ==
    [conclusion |-> conclusion, checkSuiteId |-> checkSuiteId,
     htmlUrl |-> htmlUrl, actions |-> "none"]

CombinedRefCheck(checks) == [checks |-> checks]

Repositories ==
    {[hash |-> "h1", htmlURL |-> "https://github.com/o/a"],
     [hash |-> "h2", htmlURL |-> NullStr]}

Prop(hash, branchName, prNumber) ==
    [repository |-> CHOOSE r \in Repositories : r.hash = hash,
     branchName |-> branchName, prNumber |-> prNumber]

\* One rendering, and one that differs from it in each prop the panel reads
Props ==
    {Prop("h1", "main", 1), Prop("h1", "topic", 1), Prop("h1", "main", 2),
     Prop("h2", "main", 1)}

\* `${x}` of a string | null
TemplateString(x) == IF x = NullStr THEN "null" ELSE x

----------------------------------------------------------------------------
(* Collaborators reached through the dispatcher *)

getCheckRunConclusionAdjective(conclusion) ==
    CASE conclusion = "success" -> "Successful"
      [] conclusion = "failure" -> "Failed"
      [] conclusion = "neutral" -> "Neutral"
      [] conclusion = "skipped" -> "Skipped"

toLocaleLowerCase(s) ==
    CASE s = "Successful" -> "successful"
      [] s = "Failed" -> "failed"
      [] s = "Neutral" -> "neutral"
      [] s = "Skipped" -> "skipped"

getCheckRunActionsJobsAndLogURLS(checks) ==
    [i \in DOMAIN checks |-> [checks[i] EXCEPT !.actions = "urls"]]

getActionsWorkflowRunLogs(checks) ==
    [i \in DOMAIN checks |-> [checks[i] EXCEPT !.actions = "logs"]]

----------------------------------------------------------------------------
(* getCommitRef *)

getCommitRef(prNumber) == "refs/pull/" \o ToString(prNumber) \o "/head"

----------------------------------------------------------------------------
(* getCombinedCheckSummary *)

\* conclusionMap: a Map keeps its keys in insertion order
MapHas(map, key) == \E i \in DOMAIN map : map[i].conclusion = key

MapGet(map, key) ==
    IF MapHas(map, key)
    THEN map[CHOOSE i \in DOMAIN map : map[i].conclusion = key].count
    ELSE 0

\* conclusionMap.set that never finds the key already present
MapSetAlwaysAppend(map, key, count) ==
    Append(map, [conclusion |-> key, count |-> count])

MapSet(map, key, count) ==
    IF MapHas(map, key)
    THEN [i \in DOMAIN map |->
            IF map[i].conclusion = key THEN [map[i] EXCEPT !.count = count] ELSE map[i]]
    ELSE Append(map, [conclusion |-> key, count |-> count])

RECURSIVE CountConclusions(_, _)
CountConclusions(checks, conclusionMap) ==
    IF checks = <<>> THEN conclusionMap
    ELSE LET adj == toLocaleLowerCase(getCheckRunConclusionAdjective(Head(checks).conclusion))
         IN CountConclusions(Tail(checks),
                             MapSet(conclusionMap, adj, MapGet(conclusionMap, adj) + 1))

RECURSIVE Join(_, _)
Join(strs, sep) ==
    IF strs = <<>> THEN ""
    ELSE IF Len(strs) = 1 THEN strs[1]
    ELSE strs[1] \o sep \o Join(Tail(strs), sep)

\* getCombinedCheckSummary that never pluralizes a single group
getCombinedCheckSummaryNoPlural(combinedCheck) ==
    IF combinedCheck = Null \/ Len(combinedCheck.checks) = 0 THEN ""
    ELSE LET summaryArray == CountConclusions(combinedCheck.checks, <<>>)
             output == [i \in DOMAIN summaryArray |->
                          ToString(summaryArray[i].count) \o " " \o summaryArray[i].conclusion]
         IN IF Len(summaryArray) > 1
            THEN Join(SubSeq(output, 1, Len(output) - 1), ", ")
                   \o ", and " \o output[Len(output)] \o " checks"
            ELSE output[1] \o " check"

getCombinedCheckSummary(combinedCheck) ==
    IF combinedCheck = Null \/ Len(combinedCheck.checks) = 0 THEN ""
    ELSE LET summaryArray == CountConclusions(combinedCheck.checks, <<>>)
             output == [i \in DOMAIN summaryArray |->
                          ToString(summaryArray[i].count) \o " " \o summaryArray[i].conclusion]
             pluralize == IF summaryArray[1].count > 1 THEN "checks" ELSE "check"
         IN IF Len(summaryArray) > 1
            THEN Join(SubSeq(output, 1, Len(output) - 1), ", ")
                   \o ", and " \o output[Len(output)] \o " checks"
            ELSE ToString(summaryArray[1].count) \o " " \o summaryArray[1].conclusion
                   \o " " \o pluralize

----------------------------------------------------------------------------
(* setState *)

\* During the constructor the instance has no updater yet: React drops the
\* update.  Afterwards the partial state is merged into this.state.
setState(st, partial, ph) ==
    IF ph = "constructing" THEN st
    ELSE [f \in DOMAIN st |-> IF f \in DOMAIN partial THEN partial[f] ELSE st[f]]

----------------------------------------------------------------------------
(* subscribe / unsubscribe *)

NextSubscriptionId(log) ==
    Cardinality({i \in DOMAIN log : log[i].op = "subscribe"}) + 1

\* unsubscribe that drops the handle without disposing it
unsubscribeWithoutDispose(sub, log) == [sub |-> NoSubscription, log |-> log]

unsubscribe(sub, log) ==
    IF sub # NoSubscription
    THEN [sub |-> NoSubscription, log |-> Append(log, [op |-> "dispose", id |-> sub])]
    ELSE [sub |-> sub, log |-> log]

\* subscribe that registers the new subscription before disposing the old one
subscribeThenDispose(sub, log) ==
    LET id == NextSubscriptionId(log)
        created == Append(log, [op |-> "subscribe", id |-> id])
    IN [sub |-> id, log |-> unsubscribe(sub, created).log]

subscribe(sub, log) ==
    LET u == unsubscribe(sub, log)
        id == NextSubscriptionId(u.log)
    IN [sub |-> id, log |-> Append(u.log, [op |-> "subscribe", id |-> id])]

----------------------------------------------------------------------------
(* onStatus *)

statusChecksOf(check) == IF check # Null THEN check.checks ELSE <<>>

\* onStatus showing the spinners again for every non-empty status
onStatusStateResetsLoading(check, st, ph) ==
    IF Len(statusChecksOf(check)) = 0
    THEN setState(st, [checkRuns |-> statusChecksOf(check),
                       loadingActionLogs |-> FALSE,
                       loadingActionWorkflows |-> FALSE], ph)
    ELSE setState(st, [loadingActionLogs |-> TRUE,
                       loadingActionWorkflows |-> TRUE], ph)

\* The part of onStatus that runs before its first await: the state it leaves.
onStatusState(check, st, ph) ==
    IF Len(statusChecksOf(check)) = 0
    THEN setState(st, [checkRuns |-> statusChecksOf(check),
                       loadingActionLogs |-> FALSE,
                       loadingActionWorkflows |-> FALSE], ph)
    ELSE st

\* The part of onStatus that runs before its first await: the call it issues.
onStatusCalls(check, act) ==
    IF Len(statusChecksOf(check)) = 0 THEN {}
    ELSE {[act |-> act, await |-> "jobs", checks |-> statusChecksOf(check)]}

\* onStatus without its unmounted check
isUnmountedNever(sub) == FALSE

\* if (this.statusSubscription === null) return
isUnmounted(sub) == sub = NoSubscription

----------------------------------------------------------------------------
(* rerunJobs / viewCheckRunsOnGitHub *)

\* new Set([...]) keeps the first occurrence of each value, in order
RECURSIVE SetOf(_, _)
SetOf(values, set) ==
    IF values = <<>> THEN set
    ELSE SetOf(Tail(values),
               IF \E i \in DOMAIN set : set[i] = Head(values)
               THEN set ELSE Append(set, Head(values)))

\* rerunJobs over the mapped array itself, without the Set
rerunJobsCallsNoSet(checkRuns) ==
    SelectSeq([i \in DOMAIN checkRuns |-> checkRuns[i].checkSuiteId], LAMBDA id : id # NullId)

\* The ids rerunJobs hands to dispatcher.rerequestCheckSuite, in order.
rerunJobsCalls(checkRuns) ==
    LET checkSuiteIds == SetOf([i \in DOMAIN checkRuns |-> checkRuns[i].checkSuiteId], <<>>)
    IN SelectSeq(checkSuiteIds, LAMBDA id : id # NullId)

\* The urls viewCheckRunsOnGitHub hands to dispatcher.openInBrowser.
viewCheckRunsOnGitHubCalls(checkRun, p) ==
    LET url == IF checkRun.htmlUrl # NullStr
               THEN checkRun.htmlUrl
               ELSE TemplateString(p.repository.htmlURL) \o "/pull/" \o ToString(p.prNumber)
    IN IF url = NullStr THEN <<>> ELSE <<url>>

----------------------------------------------------------------------------
(* Inputs *)

StatusesOver(checks, n) ==
    {Null} \cup {CombinedRefCheck(s) : s \in BoundedSeq(checks, n)}

\* What the store delivers in the lifecycle specification
StoreChecks == {Check(c, 1, NullStr) : c \in {"success", "failure"}}
StoreStatuses == StatusesOver(StoreChecks, MaxChecks)

\* Inputs of the summary specification
SummaryChecks == {Check(c, 1, NullStr) : c \in Conclusions}
SummaryStatuses == StatusesOver(SummaryChecks, MaxSummaryChecks)

\* Inputs of the user-action specification
ActionChecks ==
    {Check("success", id, url) : id \in {NullId, 1, 2},
                                 url \in {NullStr, "https://github.com/o/a/runs/7"}}
ActionStatuses == StatusesOver(ActionChecks, MaxRerunChecks)

----------------------------------------------------------------------------
(* constructor *)

constructor(p, combinedCheck) ==
    /\ phase = "constructed"
    /\ props = p
    /\ state = onStatusState(combinedCheck,
                   [checkRuns |-> IF combinedCheck # Null THEN combinedCheck.checks ELSE <<>>,
                    checkRunSummary |-> getCombinedCheckSummary(combinedCheck),
                    loadingActionLogs |-> TRUE,
                    loadingActionWorkflows |-> TRUE],
                   "constructing")
    /\ statusSubscription = NoSubscription
    /\ subLog = <<>>
    /\ passes = onStatusCalls(combinedCheck, 1)
    /\ delivered = [n |-> 1, via |-> "constructor", check |-> combinedCheck]
    /\ history = {}
    /\ rerequested = [ran |-> FALSE, ids |-> <<>>]
    /\ opened = [ran |-> FALSE, checkRun |-> Null, urls |-> <<>>]

\* The props of the first rendering
InitialProps == Prop("h1", "main", 1)

Init == \E combinedCheck \in StoreStatuses : constructor(InitialProps, combinedCheck)

----------------------------------------------------------------------------
(* Lifecycle *)

componentDidMount ==
    /\ phase = "constructed"
    /\ phase' = "mounted"
    /\ LET s == subscribe(statusSubscription, subLog)
       IN statusSubscription' = s.sub /\ subLog' = s.log
    /\ UNCHANGED <<props, state, passes, delivered, history, rerequested, opened>>

\* componentDidUpdate resubscribing on any change of props
identityChangedAnyProp(p, prevProps) == p # prevProps

identityChanged(p, prevProps) ==
    \/ p.repository.hash # prevProps.repository.hash
    \/ getCommitRef(p.prNumber) # getCommitRef(prevProps.prNumber)

\* The parent renders the panel with newProps; combinedCheck is what
\* tryGetCommitStatus has cached for them.
componentDidUpdate(newProps, combinedCheck) ==
    /\ phase = "mounted"
    /\ props' = newProps
    /\ IF identityChanged(newProps, props)
       THEN /\ delivered.n < MaxDeliveries
            /\ state' = setState(state,
                   [checkRuns |-> IF combinedCheck # Null THEN combinedCheck.checks ELSE <<>>],
                   phase)
            /\ LET s == subscribe(statusSubscription, subLog)
               IN statusSubscription' = s.sub /\ subLog' = s.log
            /\ delivered' = [n |-> delivered.n + 1, via |-> "update", check |-> combinedCheck]
       ELSE /\ combinedCheck = Null   \* tryGetCommitStatus is not called
            /\ UNCHANGED <<state, statusSubscription, subLog, delivered>>
    /\ UNCHANGED <<phase, passes, history, rerequested, opened>>

componentWillUnmount ==
    /\ phase = "mounted"
    /\ phase' = "unmounted"
    /\ LET u == unsubscribe(statusSubscription, subLog)
       IN statusSubscription' = u.sub /\ subLog' = u.log
    /\ UNCHANGED <<props, state, passes, delivered, history, rerequested, opened>>

----------------------------------------------------------------------------
(* onStatus, as the subscription's callback and across its two awaits *)

\* The store emits check through the live subscription.
onStatus(check) ==
    /\ phase = "mounted"
    /\ statusSubscription # NoSubscription
    /\ delivered.n < MaxDeliveries
    /\ state' = onStatusState(check, state, phase)
    /\ passes' = passes \cup onStatusCalls(check, delivered.n + 1)
    /\ delivered' = [n |-> delivered.n + 1, via |-> "subscription", check |-> check]
    /\ UNCHANGED <<phase, props, statusSubscription, subLog, history, rerequested, opened>>

Settled(p, outcome) == [act |-> p.act, await |-> p.await, outcome |-> outcome, phase |-> phase]

\* onStatus handing the log request the list it was given, not the enriched one
onStatusAfterJobsRawList(p) ==
    /\ p \in passes /\ p.await = "jobs"
    /\ LET checkRunsWithActionsUrls == getCheckRunActionsJobsAndLogURLS(p.checks)
       IN IF isUnmounted(statusSubscription)
          THEN /\ passes' = passes \ {p}
               /\ history' = history \cup {Settled(p, "discarded")}
               /\ UNCHANGED state
          ELSE /\ state' = setState(state,
                      [checkRuns |-> checkRunsWithActionsUrls,
                       loadingActionWorkflows |-> FALSE], phase)
               /\ passes' = (passes \ {p}) \cup
                      {[act |-> p.act, await |-> "logs", checks |-> p.checks]}
               /\ history' = history \cup {Settled(p, "applied")}
    /\ UNCHANGED <<phase, props, statusSubscription, subLog, delivered, rerequested, opened>>

\* onStatus clearing both loading flags as soon as the job/URL result is in
onStatusAfterJobsClearsBoth(p) ==
    /\ p \in passes /\ p.await = "jobs"
    /\ LET checkRunsWithActionsUrls == getCheckRunActionsJobsAndLogURLS(p.checks)
       IN IF isUnmounted(statusSubscription)
          THEN /\ passes' = passes \ {p}
               /\ history' = history \cup {Settled(p, "discarded")}
               /\ UNCHANGED state
          ELSE /\ state' = setState(state,
                      [checkRuns |-> checkRunsWithActionsUrls,
                       loadingActionLogs |-> FALSE,
                       loadingActionWorkflows |-> FALSE], phase)
               /\ passes' = (passes \ {p}) \cup
                      {[act |-> p.act, await |-> "logs", checks |-> checkRunsWithActionsUrls]}
               /\ history' = history \cup {Settled(p, "applied")}
    /\ UNCHANGED <<phase, props, statusSubscription, subLog, delivered, rerequested, opened>>

\* getCheckRunActionsJobsAndLogURLS resolves: lines 135-151
onStatusAfterJobs(p) ==
    /\ p \in passes /\ p.await = "jobs"
    /\ LET checkRunsWithActionsUrls == getCheckRunActionsJobsAndLogURLS(p.checks)
       IN IF isUnmounted(statusSubscription)
          THEN /\ passes' = passes \ {p}
               /\ history' = history \cup {Settled(p, "discarded")}
               /\ UNCHANGED state
          ELSE /\ state' = setState(state,
                      [checkRuns |-> checkRunsWithActionsUrls,
                       loadingActionWorkflows |-> FALSE], phase)
               /\ passes' = (passes \ {p}) \cup
                      {[act |-> p.act, await |-> "logs", checks |-> checkRunsWithActionsUrls]}
               /\ history' = history \cup {Settled(p, "applied")}
    /\ UNCHANGED <<phase, props, statusSubscription, subLog, delivered, rerequested, opened>>

\* The log result applied with the workflows spinner switched back on
onStatusAfterLogsWorkflowsOn(p) ==
    /\ p \in passes /\ p.await = "logs"
    /\ LET checkRuns == getActionsWorkflowRunLogs(p.checks)
       IN IF isUnmounted(statusSubscription)
          THEN /\ history' = history \cup {Settled(p, "discarded")}
               /\ UNCHANGED state
          ELSE /\ state' = setState(state,
                      [checkRuns |-> checkRuns, loadingActionLogs |-> FALSE,
                       loadingActionWorkflows |-> TRUE], phase)
               /\ history' = history \cup {Settled(p, "applied")}
    /\ passes' = passes \ {p}
    /\ UNCHANGED <<phase, props, statusSubscription, subLog, delivered, rerequested, opened>>

\* getActionsWorkflowRunLogs resolves: lines 153-160
onStatusAfterLogs(p) ==
    /\ p \in passes /\ p.await = "logs"
    /\ LET checkRuns == getActionsWorkflowRunLogs(p.checks)
       IN IF isUnmounted(statusSubscription)
          THEN /\ history' = history \cup {Settled(p, "discarded")}
               /\ UNCHANGED state
          ELSE /\ state' = setState(state,
                      [checkRuns |-> checkRuns, loadingActionLogs |-> FALSE], phase)
               /\ history' = history \cup {Settled(p, "applied")}
    /\ passes' = passes \ {p}
    /\ UNCHANGED <<phase, props, statusSubscription, subLog, delivered, rerequested, opened>>

\* onStatus with a catch that stops the spinners when an awaited call rejects
onStatusRejectedClearsFlags(p) ==
    /\ p \in passes
    /\ passes' = passes \ {p}
    /\ history' = history \cup {Settled(p, "rejected")}
    /\ state' = setState(state, [loadingActionLogs |-> FALSE,
                                 loadingActionWorkflows |-> FALSE], phase)
    /\ UNCHANGED <<phase, props, statusSubscription, subLog, delivered,
                   rerequested, opened>>

\* Either awaited call rejects: the async function ends there.
onStatusRejected(p) ==
    /\ p \in passes
    /\ passes' = passes \ {p}
    /\ history' = history \cup {Settled(p, "rejected")}
    /\ UNCHANGED <<phase, props, state, statusSubscription, subLog, delivered,
                   rerequested, opened>>

----------------------------------------------------------------------------
(* User actions *)

rerunJobs ==
    /\ phase = "mounted"
    /\ rerequested' = [ran |-> TRUE, ids |-> rerunJobsCalls(state.checkRuns)]
    /\ UNCHANGED <<phase, props, state, statusSubscription, subLog, passes, delivered,
                   history, opened>>

viewCheckRunsOnGitHub(checkRun) ==
    /\ phase = "mounted"
    /\ opened' = [ran |-> TRUE, checkRun |-> checkRun,
                  urls |-> viewCheckRunsOnGitHubCalls(checkRun, props)]
    /\ UNCHANGED <<phase, props, state, statusSubscription, subLog, passes, delivered,
                   history, rerequested>>

----------------------------------------------------------------------------
(* Specifications *)

Next ==
    \/ componentDidMount
    \/ \E newProps \in Props, combinedCheck \in StoreStatuses :
          componentDidUpdate(newProps, combinedCheck)
    \/ componentWillUnmount
    \/ \E check \in StoreStatuses : onStatus(check)
    \/ \E p \in passes : onStatusAfterJobs(p)
    \/ \E p \in passes : onStatusAfterLogs(p)
    \/ \E p \in passes : onStatusRejected(p)

Spec == Init /\ [][Next]_vars

\* The panel with its user actions, over check lists with every mix of
\* check-suite ids and urls.
InitActions == \E p \in Props, combinedCheck \in ActionStatuses : constructor(p, combinedCheck)

NextActions ==
    \/ componentDidMount
    \/ rerunJobs
    \/ \E i \in DOMAIN state.checkRuns : viewCheckRunsOnGitHub(state.checkRuns[i])

SpecActions == InitActions /\ [][NextActions]_vars

\* The constructor's summary, over check lists with every mix of conclusions.
InitSummary == \E p \in Props, combinedCheck \in SummaryStatuses : constructor(p, combinedCheck)

NextSummary == componentDidMount

SpecSummary == InitSummary /\ [][NextSummary]_vars

----------------------------------------------------------------------------
(* Subscriptions, read off the dispatcher log *)

Subscribed == {subLog[i].id : i \in {j \in DOMAIN subLog : subLog[j].op = "subscribe"}}

DisposeCount(id) ==
    Cardinality({i \in DOMAIN subLog : subLog[i].op = "dispose" /\ subLog[i].id = id})

LiveSubscriptions == {id \in Subscribed : DisposeCount(id) = 0}

----------------------------------------------------------------------------
(* Claims *)

\* C1: once componentWillUnmount has run, no step changes this.state and no
\* step issues an enrichment call; a call issued earlier that settles
\* afterwards only leaves the set of calls in flight.
C1_NoWriteAfterTeardown ==
    [][phase = "unmounted" => state' = state /\ passes' \subseteq passes]_vars

C1_Witness ==
    /\ phase = "unmounted"
    /\ \E h \in history : h.phase = "unmounted" /\ h.outcome = "discarded"

\* C2: at most one subscription is created and not yet disposed; exactly one
\* while the panel is mounted, none after componentWillUnmount.
C2_OneLiveSubscription ==
    /\ Cardinality(LiveSubscriptions) <= 1
    /\ phase = "mounted" => Cardinality(LiveSubscriptions) = 1
    /\ phase = "unmounted" => Cardinality(LiveSubscriptions) = 0

C2_Witness ==
    /\ phase = "mounted"
    /\ Cardinality(Subscribed) >= 2
    /\ LiveSubscriptions = {statusSubscription}

\* C3: no subscription is disposed twice; when a subscription is created every
\* earlier one has already been disposed; after componentWillUnmount every
\* subscription has been disposed exactly once.
C3_DisposeOnceBeforeResubscribe ==
    /\ \A id \in Subscribed : DisposeCount(id) <= 1
    /\ \A i \in DOMAIN subLog : \A j \in 1..(i - 1) :
          subLog[i].op = "subscribe" /\ subLog[j].op = "subscribe" =>
             \E k \in (j + 1)..(i - 1) :
                subLog[k].op = "dispose" /\ subLog[k].id = subLog[j].id
    /\ phase = "unmounted" => \A id \in Subscribed : DisposeCount(id) = 1

C3_Witness ==
    /\ phase = "unmounted"
    /\ Cardinality(Subscribed) >= 2

\* C4: the summary shown is the summary of the check list shown.
C4_SummaryFollowsCheckRuns ==
    state.checkRunSummary = getCombinedCheckSummary(CombinedRefCheck(state.checkRuns))

\* The lists that come of a delivered check list: itself, and what the two
\* enrichment phases make of it.
DerivedFrom(checks) ==
    {checks,
     getCheckRunActionsJobsAndLogURLS(checks),
     getActionsWorkflowRunLogs(getCheckRunActionsJobsAndLogURLS(checks))}

\* C5: the check list shown is the most recently delivered one, or an
\* enrichment of it.
C5_ShowsLatestDelivered ==
    state.checkRuns \in DerivedFrom(statusChecksOf(delivered.check))

\* C6: a props update that changes (repository, ref) shows the cached check
\* list and, when it is not empty, issues the job/log URL request for it.
C6_IdentityChangeRestartsEnrichment ==
    [][delivered'.n # delivered.n /\ delivered'.via = "update" =>
         /\ state'.checkRuns = statusChecksOf(delivered'.check)
         /\ state'.checkRuns # <<>> =>
               \E p \in passes' \ passes :
                  p.await = "jobs" /\ p.checks = state'.checkRuns]_vars

Cleared(st) ==
    /\ st.checkRuns = <<>>
    /\ ~st.loadingActionLogs
    /\ ~st.loadingActionWorkflows

\* C7: an empty or null status, from the cache in the constructor or through
\* the subscription, leaves the list empty and both loading flags false, and
\* issues no enrichment call.
C7_EmptyStatusClearsPanel ==
    [][/\ (phase = "constructed" /\ delivered.via = "constructor"
              /\ Len(statusChecksOf(delivered.check)) = 0)
          => Cleared(state) /\ passes = {}
       /\ (delivered'.n # delivered.n /\ delivered'.via = "subscription"
              /\ Len(statusChecksOf(delivered'.check)) = 0)
          => Cleared(state') /\ passes' \subseteq passes]_vars

CheckSuiteIds == {state.checkRuns[i].checkSuiteId : i \in DOMAIN state.checkRuns}

\* C8: rerunJobs re-requests each non-null check suite id of the list shown
\* exactly once, and nothing else.
C8_RerunOncePerSuite ==
    rerequested.ran =>
        /\ \A id \in CheckSuiteIds \ {NullId} :
              Cardinality({k \in DOMAIN rerequested.ids : rerequested.ids[k] = id}) = 1
        /\ \A k \in DOMAIN rerequested.ids :
              rerequested.ids[k] # NullId /\ rerequested.ids[k] \in CheckSuiteIds

C8_Witness ==
    /\ rerequested.ran
    /\ Len(state.checkRuns) = 3
    /\ state.checkRuns[1].checkSuiteId = 1
    /\ state.checkRuns[2].checkSuiteId = NullId
    /\ state.checkRuns[3].checkSuiteId = 1
    /\ rerequested.ids = <<1>>

\* C9: viewCheckRunsOnGitHub opens the check's htmlUrl when it has one, else
\* the pull request's url when the repository has an htmlURL, else nothing.
C9_OpenOnProvider ==
    opened.ran =>
        opened.urls =
            IF opened.checkRun.htmlUrl # NullStr THEN <<opened.checkRun.htmlUrl>>
            ELSE IF props.repository.htmlURL # NullStr
                 THEN <<props.repository.htmlURL \o "/pull/" \o ToString(props.prNumber)>>
                 ELSE <<>>

\* The summary as the claim words it, for the check list the constructor read
SummaryInput == statusChecksOf(delivered.check)

AdjectiveAt(i) ==
    toLocaleLowerCase(getCheckRunConclusionAdjective(SummaryInput[i].conclusion))

Adjectives == {AdjectiveAt(i) : i \in DOMAIN SummaryInput}

FirstSeen(adj) == CHOOSE i \in DOMAIN SummaryInput :
    AdjectiveAt(i) = adj /\ \A j \in 1..(i - 1) : AdjectiveAt(j) # adj

FirstSeenOrder ==
    CHOOSE g \in [1..Cardinality(Adjectives) -> Adjectives] :
        \A a, b \in DOMAIN g : a < b => FirstSeen(g[a]) < FirstSeen(g[b])

GroupText(adj) ==
    ToString(Cardinality({i \in DOMAIN SummaryInput : AdjectiveAt(i) = adj})) \o " " \o adj

RECURSIVE GroupsText(_)
GroupsText(k) ==
    IF k = 0 THEN "" ELSE GroupsText(k - 1) \o GroupText(FirstSeenOrder[k]) \o ", "

ConclusionsOf(checks) == [i \in DOMAIN checks |-> checks[i].conclusion]

\* C10: the summary is empty for no status or no checks; "<n> <adjective>
\* check" or "... checks" by n for one adjective; and for several the groups
\* in first-seen order, "<c1> <adj1>, ..., and <cn> <adjn> checks".
C10_SummaryText ==
    LET n == Cardinality(Adjectives)
    IN /\ n = 0 => state.checkRunSummary = ""
       /\ n = 1 => state.checkRunSummary =
             GroupText(FirstSeenOrder[1])
                \o (IF Len(SummaryInput) = 1 THEN " check" ELSE " checks")
       /\ n > 1 => state.checkRunSummary =
             GroupsText(n - 1) \o "and " \o GroupText(FirstSeenOrder[n]) \o " checks"
       /\ ConclusionsOf(SummaryInput) = <<"success">>
             => state.checkRunSummary = "1 successful check"
       /\ ConclusionsOf(SummaryInput) = <<"success", "success">>
             => state.checkRunSummary = "2 successful checks"
       /\ ConclusionsOf(SummaryInput) = <<"success", "failure">>
             => state.checkRunSummary = "1 successful, and 1 failed checks"

C10_Witness ==
    /\ ConclusionsOf(SummaryInput) = <<"failure", "success", "failure">>
    /\ state.checkRunSummary = "2 failed, and 1 successful checks"

RECURSIVE SumCounts(_)
SumCounts(groups) ==
    IF groups = <<>> THEN 0 ELSE Head(groups).count + SumCounts(Tail(groups))

\* C11: the summary has one group per distinct lower-cased adjective of the
\* list, each with the number of checks of that adjective, and the counts add
\* up to the length of the list; it is empty exactly when there is no group.
C11_SummaryGroups ==
    LET summaryArray == CountConclusions(SummaryInput, <<>>)
    IN /\ Len(summaryArray) = Cardinality(Adjectives)
       /\ \A i \in DOMAIN summaryArray :
             /\ summaryArray[i].conclusion \in Adjectives
             /\ summaryArray[i].count =
                   Cardinality({j \in DOMAIN SummaryInput :
                                   AdjectiveAt(j) = summaryArray[i].conclusion})
       /\ SumCounts(summaryArray) = Len(SummaryInput)
       /\ (state.checkRunSummary = "") = (Len(summaryArray) = 0)

C11_Witness ==
    /\ Len(SummaryInput) = 3
    /\ Cardinality(Adjectives) = 2
    /\ Len(CountConclusions(SummaryInput, <<>>)) = 2

\* C12: when an enrichment call rejects, the list and both loading flags stay
\* as they were, no call of that activation is left or issued, and nothing
\* else of the panel changes: later callbacks, user actions and teardown find
\* it as they would have.
C12_RejectionIsFailSoft ==
    [][\A h \in history' \ history : h.outcome = "rejected" =>
          /\ state' = state
          /\ passes' \subseteq passes
          /\ ~ \E p \in passes' : p.act = h.act
          /\ UNCHANGED <<phase, props, statusSubscription, subLog, delivered,
                         rerequested, opened>>]_vars

C12_Witness ==
    /\ phase = "unmounted"
    /\ \E h \in history : h.outcome = "rejected" /\ h.act = 1 /\ h.await = "jobs"
    /\ \E h \in history : h.outcome = "applied" /\ h.act = 2 /\ h.await = "logs"
    /\ state.loadingActionLogs = FALSE

\* C13: a workflow-log request appears only in the step that applies the
\* job/URL result of the same activation, carries the list that call
\* returned, and is the only one of its activation; a discarded job/URL
\* result issues nothing.
C13_LogsFollowJobsOfSameActivation ==
    [][/\ \A p \in passes' \ passes : p.await = "logs" =>
             /\ \E q \in passes \ passes' :
                   /\ q.act = p.act /\ q.await = "jobs"
                   /\ p.checks = getCheckRunActionsJobsAndLogURLS(q.checks)
                   /\ Settled(q, "applied") \in history' \ history
             /\ ~ \E r \in passes : r.act = p.act /\ r.await = "logs"
             /\ ~ \E h \in history : h.act = p.act /\ h.await = "logs"
       /\ \A h \in history' \ history :
             h.await = "jobs" /\ h.outcome = "discarded" => passes' \subseteq passes]_vars

C13_Witness ==
    /\ \E h \in history : h.act = 1 /\ h.await = "jobs" /\ h.outcome = "discarded"
    /\ \E p \in passes : p.act = 2 /\ p.await = "logs" /\ p.checks[1].actions = "urls"

\* C14: an enrichment result that arrives while the panel is not torn down,
\* before or after the subscription is registered, is applied: it replaces
\* the list shown and clears the loading flag of its phase.
C14_DiscardOnlyAfterTeardown ==
    [][\A h \in history' \ history :
          h.outcome # "rejected" /\ phase # "unmounted" =>
             /\ h.outcome = "applied"
             /\ h.await = "jobs" =>
                   /\ ~state'.loadingActionWorkflows
                   /\ \A i \in DOMAIN state'.checkRuns : state'.checkRuns[i].actions = "urls"
             /\ h.await = "logs" =>
                   /\ ~state'.loadingActionLogs
                   /\ \A i \in DOMAIN state'.checkRuns : state'.checkRuns[i].actions = "logs"]_vars

\* C15, as claimed: right after a job/URL result is applied
\* loadingActionWorkflows is false and loadingActionLogs is true; right after
\* a workflow-log result is applied loadingActionLogs is false.
C15_FlagsAfterEachPhase ==
    [][\A h \in history' \ history : h.outcome = "applied" =>
          /\ h.await = "jobs" =>
                ~state'.loadingActionWorkflows /\ state'.loadingActionLogs
          /\ h.await = "logs" => ~state'.loadingActionLogs]_vars

\* C15, amended: applying a job/URL result clears loadingActionWorkflows and
\* leaves loadingActionLogs as it was; applying a workflow-log result clears
\* loadingActionLogs and leaves loadingActionWorkflows as it was.
C15_FlagsAfterEachPhaseAmended ==
    [][\A h \in history' \ history : h.outcome = "applied" =>
          /\ h.await = "jobs" =>
                /\ ~state'.loadingActionWorkflows
                /\ state'.loadingActionLogs = state.loadingActionLogs
          /\ h.await = "logs" =>
                /\ ~state'.loadingActionLogs
                /\ state'.loadingActionWorkflows = state.loadingActionWorkflows]_vars

C15_Witness ==
    /\ \E h \in history : h.act = 2 /\ h.await = "jobs" /\ h.outcome = "applied"
    /\ \E p \in passes : p.act = 2 /\ p.await = "logs"
    /\ ~state.loadingActionWorkflows
    /\ ~state.loadingActionLogs

\* C16: a props update that keeps repository.hash and refs/pull/<prNumber>/head
\* neither disposes nor creates a subscription, reads no snapshot, and leaves
\* this.state as it was.
C16_SameIdentityChangesNothing ==
    [][(/\ props' # props
        /\ props'.repository.hash = props.repository.hash
        /\ getCommitRef(props'.prNumber) = getCommitRef(props.prNumber))
       => UNCHANGED <<state, statusSubscription, subLog, delivered, passes>>]_vars

C16_Witness ==
    /\ phase = "mounted"
    /\ props = Prop("h1", "topic", 1)
    /\ subLog = <<[op |-> "subscribe", id |-> 1]>>
    /\ delivered.n = 1

\* C17: a panel created with a non-empty cached status and mounted, whose
\* enrichment calls have all resolved, no longer shows either loading flag,
\* though the store has emitted nothing.  (Once no call is in flight nothing
\* but the store, the parent or teardown can act, so the flags then shown
\* are the ones that stay.)
C17_LoadingEndsWithoutStore ==
    (/\ phase = "mounted"
     /\ delivered.n = 1
     /\ Len(statusChecksOf(delivered.check)) > 0
     /\ passes = {}
     /\ \A h \in history : h.outcome # "rejected")
    => ~state.loadingActionLogs /\ ~state.loadingActionWorkflows

\* C18: a loading flag that is false stays false, whatever step follows.
C18_LoadingFlagsMonotonic ==
    [][/\ ~state.loadingActionWorkflows => ~state'.loadingActionWorkflows
       /\ ~state.loadingActionLogs => ~state'.loadingActionLogs]_vars

C18_Witness ==
    /\ delivered.n = 2
    /\ delivered.via = "subscription"
    /\ \E p \in passes : p.act = 2
    /\ ~state.loadingActionWorkflows
    /\ ~state.loadingActionLogs

\* C19: the panel never shows log parsing as finished while workflow
\* retrieval still shows as loading.
C19_LogsDoneImpliesWorkflowsDone ==
    ~state.loadingActionLogs => ~state.loadingActionWorkflows

C19_Witness ==
    /\ \E h \in history : h.act = 1 /\ h.await = "logs" /\ h.outcome = "applied"
    /\ \E p \in passes : p.act = 2 /\ p.await = "jobs"
    /\ ~state.loadingActionLogs
    /\ ~state.loadingActionWorkflows

====
